---- MODULE Spec2Model ----
(***************************************************************************)
(* A model of owrx/feature.py: the feature catalog, the requirement        *)
(* dispatch of FeatureDetector, the detection strategies and the           *)
(* time-bounded FeatureCache.                                              *)
(*                                                                         *)
(* Time is counted in hours (FeatureCache.cachetime is two of them).       *)
(* A detection strategy reads the host: what it finds there (whether a     *)
(* binary starts, what it prints, how it exits, whether a module imports)  *)
(* is drawn, on every run of the strategy, from the conditions the host    *)
(* gives the tool: one condition for a tool that stays as it is, any of    *)
(* its conditions for a tool the host says nothing about.                  *)
(***************************************************************************)
EXTENDS Integers, Sequences, FiniteSets, TLC

\* ------------------------------------------------------------------ bounds

\* The clock runs from 0 to MaxTime hours.
MaxTime == 4

\* In the runs of two threads the clock runs from 0 to MaxThreadTime hours:
\* an entry stored at 0 is valid until 2 and expired at 3.
MaxThreadTime == 3

\* The number of public calls (is_available, has_requirement, ...) one run makes.
MaxCalls == 2

\* The number of rounds of command_is_runnable's wait loop that are followed;
\* the loop itself has no limit.
MaxRounds == 3

\* The number of seconds that are followed while a strategy waits in the read
\* of a command's output; the read itself has no timeout.
MaxRead == 3

\* ------------------------------------------------------------- the catalog

\* FeatureDetector.features, entry for entry.
features ==
    [ core |-> <<"csdr">>,
      rtl_sdr |-> <<"rtl_connector">>,
      rtl_sdr_soapy |-> <<"soapy_connector", "soapy_rtl_sdr">>,
      rtl_tcp |-> <<"rtl_tcp_connector">>,
      sdrplay |-> <<"soapy_connector", "soapy_sdrplay">>,
      hackrf |-> <<"soapy_connector", "soapy_hackrf">>,
      perseussdr |-> <<"perseustest", "nmux">>,
      airspy |-> <<"soapy_connector", "soapy_airspy">>,
      airspyhf |-> <<"soapy_connector", "soapy_airspyhf">>,
      afedri |-> <<"soapy_connector", "soapy_afedri">>,
      lime_sdr |-> <<"soapy_connector", "soapy_lime_sdr">>,
      fifi_sdr |-> <<"alsa", "rockprog", "nmux">>,
      pluto_sdr |-> <<"soapy_connector", "soapy_pluto_sdr">>,
      soapy_remote |-> <<"soapy_connector", "soapy_remote">>,
      uhd |-> <<"soapy_connector", "soapy_uhd">>,
      radioberry |-> <<"soapy_connector", "soapy_radioberry">>,
      fcdpp |-> <<"soapy_connector", "soapy_fcdpp">>,
      bladerf |-> <<"soapy_connector", "soapy_bladerf">>,
      sddc |-> <<"sddc_connector">>,
      sddc_soapy |-> <<"soapy_connector", "soapy_sddc">>,
      hpsdr |-> <<"hpsdr_connector">>,
      runds |-> <<"runds_connector">>,
      digital_voice_digiham |-> <<"digiham", "codecserver_ambe">>,
      digital_voice_freedv |-> <<"freedv_rx">>,
      digital_voice_m17 |-> <<"m17_demod">>,
      msk144 |-> <<"msk144decoder">>,
      packet |-> <<"direwolf">>,
      pocsag |-> <<"digiham">>,
      js8call |-> <<"js8", "js8py">>,
      drm |-> <<"dream">>,
      dump1090 |-> <<"dump1090">>,
      ism |-> <<"rtl_433">>,
      dumphfdl |-> <<"dumphfdl">>,
      dumpvdl2 |-> <<"dumpvdl2">>,
      redsea |-> <<"redsea">>,
      dab |-> <<"csdreti", "dablin">>,
      mqtt |-> <<"paho_mqtt">> ]
    @@ ("wsjt-x" :> <<"wsjtx">>)
    @@ ("wsjt-x-2-3" :> <<"wsjtx_2_3">>)
    @@ ("wsjt-x-2-4" :> <<"wsjtx_2_4">>)

\* The keys of FeatureDetector.features in the order of the dict, which is the
\* order feature_availability and feature_report go through them.
FeatureOrder ==
    << "core", "rtl_sdr", "rtl_sdr_soapy", "rtl_tcp", "sdrplay", "hackrf",
       "perseussdr", "airspy", "airspyhf", "afedri", "lime_sdr", "fifi_sdr",
       "pluto_sdr", "soapy_remote", "uhd", "radioberry", "fcdpp", "bladerf",
       "sddc", "sddc_soapy", "hpsdr", "runds", "digital_voice_digiham",
       "digital_voice_freedv", "digital_voice_m17", "wsjt-x", "wsjt-x-2-3",
       "wsjt-x-2-4", "msk144", "packet", "pocsag", "js8call", "drm",
       "dump1090", "ism", "dumphfdl", "dumpvdl2", "redsea", "dab", "mqtt" >>

\* The feature names callers pass; the last one is no key of the catalog.
FeatureArgs == {"core", "rtl_sdr_soapy", "no_such_feature"}

\* The requirement names callers pass to has_requirement directly; the last
\* one has no has_<name> method.
RequirementArgs == {"soapy_connector", "no_such_requirement"}

\* The same with a name whose has_<name> is has_requirement itself, for the
\* runs of one caller.
DirectArgs == RequirementArgs \cup {"requirement"}

\* The requirements of the WSJT-X suite has_requirement is called with.
WsjtxArgs == {"wsjtx", "wsjtx_2_3", "wsjtx_2_4"}

\* ---------------------------------------------------- results of a strategy

Returns(v) == [raised |-> FALSE, value |-> v, exc |-> "none"]
Raises(e) == [raised |-> TRUE, value |-> FALSE, exc |-> e]

\* ------------------------------------------------- distutils' LooseVersion

Digits == <<"0", "1", "2", "3", "4", "5", "6", "7", "8", "9">>
Letters == <<"a", "b", "c", "r", "x">>
\* The characters of the version texts, in code point order.
CharOrder == <<"-", ".">> \o Digits \o Letters

IndexOf(seq, c) == CHOOSE i \in 1..Len(seq) : seq[i] = c
Range(seq) == {seq[i] : i \in 1..Len(seq)}

\* The classes of LooseVersion.component_re: a run of digits, a run of lower
\* case letters, a dot; anything else is text between the matches.
CharClass(c) ==
    IF c \in Range(Digits) THEN "digits"
    ELSE IF c \in Range(Letters) THEN "letters"
    ELSE IF c = "." THEN "dot"
    ELSE "other"

\* component_re.split: the maximal runs of one class, every dot on its own.
RECURSIVE Runs(_)
Runs(s) ==
    IF s = <<>> THEN <<>>
    ELSE LET c == Head(s)
             rest == Runs(Tail(s))
         IN IF CharClass(c) # "dot" /\ rest # <<>> /\ rest[1].cls = CharClass(c)
            THEN <<[cls |-> rest[1].cls, chars |-> <<c>> \o rest[1].chars]>> \o Tail(rest)
            ELSE <<[cls |-> CharClass(c), chars |-> <<c>>]>> \o rest

\* int() of a run of digits.
RECURSIVE IntOf(_)
IntOf(ds) ==
    IF ds = <<>> THEN 0
    ELSE 10 * IntOf(SubSeq(ds, 1, Len(ds) - 1)) + (IndexOf(Digits, ds[Len(ds)]) - 1)

\* LooseVersion.parse: the runs without the dots, the digit runs as numbers.
Component(run) ==
    IF run.cls = "digits" THEN [num |-> TRUE, n |-> IntOf(run.chars), s |-> <<>>]
    ELSE [num |-> FALSE, n |-> 0, s |-> run.chars]
LooseVersion(text) ==
    LET runs == SelectSeq(Runs(text), LAMBDA r : r.cls # "dot")
    IN [ parsed |-> text # <<>>,     \* __init__ parses only "if vstring"
         version |-> [i \in 1..Len(runs) |-> Component(runs[i])] ]

\* Python's order of two strings: "lt", "eq" or "gt".
RECURSIVE StrCmp(_, _)
StrCmp(a, b) ==
    IF a = <<>> /\ b = <<>> THEN "eq"
    ELSE IF a = <<>> THEN "lt"
    ELSE IF b = <<>> THEN "gt"
    ELSE IF Head(a) = Head(b) THEN StrCmp(Tail(a), Tail(b))
    ELSE IF IndexOf(CharOrder, Head(a)) < IndexOf(CharOrder, Head(b)) THEN "lt"
    ELSE "gt"

\* Python's order of two component lists, LooseVersion._cmp: decided by the
\* first pair of components that differ, a number against a string being a
\* TypeError; a list that is a prefix of the other is the smaller one.
RECURSIVE LooseCmp(_, _)
LooseCmp(a, b) ==
    IF a = <<>> /\ b = <<>> THEN "eq"
    ELSE IF a = <<>> THEN "lt"
    ELSE IF b = <<>> THEN "gt"
    ELSE IF Head(a) = Head(b) THEN LooseCmp(Tail(a), Tail(b))
    ELSE IF Head(a).num /\ Head(b).num
         THEN (IF Head(a).n < Head(b).n THEN "lt" ELSE "gt")
    ELSE IF ~Head(a).num /\ ~Head(b).num THEN StrCmp(Head(a).s, Head(b).s)
    ELSE "TypeError"

\* version >= required_version: a value, or the TypeError; a LooseVersion made
\* of an empty text has no version attribute to compare.
LooseGe(version, required) ==
    IF ~version.parsed \/ ~required.parsed THEN Raises("AttributeError")
    ELSE LET c == LooseCmp(version.version, required.version)
         IN IF c = "TypeError" THEN Raises("TypeError") ELSE Returns(c # "lt")

\* A StrictVersion object: the (major, minor, patch) tuple and the
\* pre-release tag, <<>> for None or a letter "a" or "b" with a number.
StrictVersion(version, prerelease) == [version |-> version, prerelease |-> prerelease]

\* The order of two tuples of numbers of the same length, as python compares
\* tuples: "lt", "eq" or "gt".
RECURSIVE TupleCmp(_, _)
TupleCmp(a, b) ==
    IF a = <<>> THEN "eq"
    ELSE IF Head(a) < Head(b) THEN "lt"
    ELSE IF Head(a) > Head(b) THEN "gt"
    ELSE TupleCmp(Tail(a), Tail(b))

\* The pre-release tag as a tuple of numbers: "a" sorts before "b".
TagKey(prerelease) == <<IF prerelease[1] = "a" THEN 0 ELSE 1, prerelease[2]>>

\* StrictVersion._cmp: the version tuples decide; with equal tuples a
\* pre-release comes before the release, and two pre-releases go by their tags.
StrictCmp(a, b) ==
    IF a.version # b.version THEN TupleCmp(a.version, b.version)
    ELSE IF a.prerelease = <<>> /\ b.prerelease = <<>> THEN "eq"
    ELSE IF a.prerelease # <<>> /\ b.prerelease = <<>> THEN "lt"
    ELSE IF a.prerelease = <<>> /\ b.prerelease # <<>> THEN "gt"
    ELSE TupleCmp(TagKey(a.prerelease), TagKey(b.prerelease))

\* a >= b for StrictVersion objects.
StrictGe(a, b) == StrictCmp(a, b) # "lt"

\* The minimum versions the strategies name.
V_0_1 == <<"0", ".", "1">>
V_0_2 == <<"0", ".", "2">>
V_0_6 == <<"0", ".", "6">>
V_0_7 == <<"0", ".", "7">>
V_0_19_0 == <<"0", ".", "1", "9", ".", "0">>
V_2_2 == <<"2", ".", "2">>
V_2_3 == <<"2", ".", "3">>
V_2_4 == <<"2", ".", "4">>

\* ------------------------------------------------------- what the host shows

\* How subprocess.Popen ends: the process is started, or the executable is
\* not found, or it is found and may not be executed, or it is found with
\* the execute bits and is no program the kernel can run (OSError, "Exec
\* format error").
Launch == {"started", "FileNotFoundError", "PermissionError", "OSError"}

\* The return codes process.wait() hands back: an exit status, or minus the
\* number of the signal that ended the process (9 after process.kill()).
ExitCodes == {-9, 0, 1, 127, 255}

\* The version texts a tool or a module of the host may report.
HostVersions ==
    { V_0_6, V_0_7, <<"0", ".", "1", "0">>, V_0_19_0, V_2_2, V_2_3,
      <<"2", ".", "4", ".", "1">>, <<"0", ".", "x">>, <<>> }

\* The first line a tool prints: the text before the version, the version,
\* and whether its bytes are UTF-8, so that decode() gives the text.
HostLines(prefix) ==
    [prefix : {prefix, "usage: "}, rest : HostVersions, utf8 : {TRUE}]
    \cup [prefix : {prefix, "usage: "}, rest : {V_0_7}, utf8 : {FALSE}]

\* How the process.kill() calls of command_is_runnable's wait loop end: none
\* of them raises, or one raises PermissionError (the process has taken the
\* identity of another user and may not be signalled).
KillErrors == {"none", "PermissionError"}

\* One run of a command under command_is_runnable: the launch, an error of
\* the wait loop, and the return code the loop hands on when it has none.
CommandHost == [launch : Launch, kill : KillErrors, rc : ExitCodes]
\* One run of "<command> --version" read by a version check.
VersionHost(prefix) == [launch : Launch, line : HostLines(prefix), exited : BOOLEAN]
\* A line of output whose bytes are not UTF-8.
NotUtf8 == "<not UTF-8>"
\* One run of "soapy_connector --listdrivers" by the check for a driver: the
\* lines it prints hold that driver or not, next to others, and a line that
\* is not UTF-8 or not.
DriverLists(driver) == SUBSET {driver, "rtlsdr", "sdrplay", NotUtf8}
DriverHost(driver) ==
    [launch : Launch, drivers : DriverLists(driver), exited : BOOLEAN]
\* One import of a library's python bindings.
ModuleHost == [importable : BOOLEAN, lib : {V_0_6, V_0_19_0, <<"0", ".", "x">>, <<>>},
               binding : {V_0_1, V_0_19_0, <<>>}]
\* One import of js8py.version: its strictversion.
StrictHost ==
    [importable : BOOLEAN,
     strict : {StrictVersion(<<0, 1, 0>>, <<>>), StrictVersion(<<0, 2, 0>>, <<"a", 1>>),
               StrictVersion(<<0, 2, 0>>, <<>>), StrictVersion(<<0, 2, 1>>, <<"b", 2>>),
               StrictVersion(<<1, 0, 0>>, <<>>)}]
\* "from digiham.modules import MbeSynthesizer" with digiham importable, and
\* MbeSynthesizer.hasAmbe(server): its value, or the error it ends in.
CodecserverHost == {"True", "False", "ImportError", "ConnectionError", "RuntimeError"}

\* --------------------------------------------------------- the strategies

NoExpected == [given |-> FALSE, code |-> 0]
Expected(code) == [given |-> TRUE, code |-> code]

\* Python's "a and b" of two boolean results: b is evaluated only after a
\* returned True.
AndThen(a, b) == IF a.raised \/ ~a.value THEN a ELSE b

\* command_is_runnable without the "except FileNotFoundError".
command_is_runnable_uncaught(h, expected) ==
    IF h.launch # "started" THEN Raises(h.launch)
    ELSE IF h.kill # "none" THEN Raises(h.kill)
    ELSE IF ~expected.given THEN Returns(h.rc # 32512)
    ELSE Returns(h.rc = expected.code)

\* command_is_runnable taking a process ended by a signal for not runnable
\* when no expected exit code is given.
command_is_runnable_signalled(h, expected) ==
    IF h.launch = "FileNotFoundError" THEN Returns(FALSE)
    ELSE IF h.launch # "started" THEN Raises(h.launch)
    ELSE IF h.kill # "none" THEN Raises(h.kill)
    ELSE IF ~expected.given THEN Returns(h.rc >= 0)
    ELSE Returns(h.rc = expected.code)

\* command_is_runnable taking a return code of 0 for success when no expected
\* one is given.
command_is_runnable_zero(h, expected) ==
    IF h.launch = "FileNotFoundError" THEN Returns(FALSE)
    ELSE IF h.launch # "started" THEN Raises(h.launch)
    ELSE IF h.kill # "none" THEN Raises(h.kill)
    ELSE IF ~expected.given THEN Returns(h.rc = 0)
    ELSE Returns(h.rc = expected.code)

\* command_is_runnable(command, expected_result) on a host h: the launch, the
\* wait loop, whose process.kill() may raise, the return code it hands on, and
\* the comparison; only FileNotFoundError is caught.
command_is_runnable(h, expected) ==
    IF h.launch = "FileNotFoundError" THEN Returns(FALSE)
    ELSE IF h.launch # "started" THEN Raises(h.launch)
    ELSE IF h.kill # "none" THEN Raises(h.kill)
    ELSE IF ~expected.given THEN Returns(h.rc # 32512)
    ELSE Returns(h.rc = expected.code)

\* The version checks' regular expression, "^<prefix>(.*)$", on the first line.
VersionLineMatches(prefix, line) == line.prefix = prefix

\* _check_connector(command, required_version): the launch, the first line
\* decoded and matched, process.wait(1), the comparison.
check_connector(h, command, required_version) ==
    IF h.launch = "FileNotFoundError" THEN Returns(FALSE)
    ELSE IF h.launch # "started" THEN Raises(h.launch)
    ELSE IF ~h.line.utf8 THEN Raises("UnicodeDecodeError")
    ELSE IF ~VersionLineMatches(command \o " version ", h.line) THEN Returns(FALSE)
    ELSE IF ~h.exited THEN Raises("TimeoutExpired")
    ELSE LooseGe(LooseVersion(h.line.rest), LooseVersion(required_version))

\* _has_soapy_driver(driver): the launch, every line decoded, process.wait(1),
\* the lookup.
has_soapy_driver(h, driver) ==
    IF h.launch = "FileNotFoundError" THEN Returns(FALSE)
    ELSE IF h.launch # "started" THEN Raises(h.launch)
    ELSE IF NotUtf8 \in h.drivers THEN Raises("UnicodeDecodeError")
    ELSE IF ~h.exited THEN Raises("TimeoutExpired")
    ELSE Returns(driver \in h.drivers)

\* has_csdr, has_digiham, has_csdreti: the library's and the bindings'
\* versions against the required one.
has_module(h, required_version) ==
    IF ~h.importable THEN Returns(FALSE)
    ELSE AndThen(LooseGe(LooseVersion(h.lib), LooseVersion(required_version)),
                 LooseGe(LooseVersion(h.binding), LooseVersion(required_version)))

has_js8py(h) ==
    IF ~h.importable THEN Returns(FALSE)
    ELSE Returns(StrictGe(h.strict, StrictVersion(<<0, 2, 0>>, <<>>)))

has_paho_mqtt(h) == Returns(h.importable)

\* has_codecserver_ambe: the import, connection and runtime errors are caught.
has_codecserver_ambe(h) == Returns(h = "True")

\* has_wsjtx: reduce(and_, map(command_is_runnable, ["jt9", "wsprd"]), True);
\* both commands are run, the first error ends it.
has_wsjtx(jt9, wsprd) ==
    LET a == command_is_runnable(jt9, NoExpected)
        b == command_is_runnable(wsprd, NoExpected)
    IN IF a.raised THEN a
       ELSE IF b.raised THEN b
       ELSE Returns(a.value /\ b.value)

\* _has_wsjtx_version(required_version).
has_wsjtx_version(h, required_version) ==
    IF h.launch = "FileNotFoundError" THEN Returns(FALSE)
    ELSE IF h.launch # "started" THEN Raises(h.launch)
    ELSE IF ~h.line.utf8 THEN Raises("UnicodeDecodeError")
    ELSE IF ~VersionLineMatches("WSJT-X ", h.line) THEN Returns(FALSE)
    ELSE IF ~h.exited THEN Raises("TimeoutExpired")
    ELSE LooseGe(LooseVersion(h.line.rest), LooseVersion(required_version))

\* has_wsjtx_2_3, has_wsjtx_2_4: "self.has_wsjtx() and
\* self._has_wsjtx_version(...)", given how has_wsjtx() ends and how
\* _has_wsjtx_version(...) ends when it is called.
has_wsjtx_min(wsjtx, version) == AndThen(wsjtx, version)

\* The requirements checked by command_is_runnable, with their arguments.
CommandOf ==
    [ nmux |-> [command |-> "nmux --help", expected |-> NoExpected],
      perseustest |-> [command |-> "perseustest -h", expected |-> NoExpected],
      m17_demod |-> [command |-> "m17-demod", expected |-> Expected(0)],
      direwolf |-> [command |-> "direwolf --help", expected |-> NoExpected],
      msk144decoder |-> [command |-> "msk144decoder", expected |-> NoExpected],
      js8 |-> [command |-> "js8", expected |-> NoExpected],
      alsa |-> [command |-> "arecord --help", expected |-> NoExpected],
      rockprog |-> [command |-> "rockprog", expected |-> NoExpected],
      freedv_rx |-> [command |-> "freedv_rx", expected |-> NoExpected],
      dream |-> [command |-> "dream --help", expected |-> Expected(0)],
      hpsdr_connector |-> [command |-> "hpsdrconnector -h", expected |-> NoExpected],
      dump1090 |-> [command |-> "dump1090 --version", expected |-> NoExpected],
      rtl_433 |-> [command |-> "rtl_433 -h", expected |-> NoExpected],
      dumphfdl |-> [command |-> "dumphfdl --version", expected |-> NoExpected],
      dumpvdl2 |-> [command |-> "dumpvdl2 --version", expected |-> NoExpected],
      redsea |-> [command |-> "redsea --version", expected |-> NoExpected],
      dablin |-> [command |-> "dablin -h", expected |-> NoExpected] ]

\* The requirements checked by _check_connector, with their minimum versions.
ConnectorOf ==
    [ rtl_connector |-> V_0_7, rtl_tcp_connector |-> V_0_7, soapy_connector |-> V_0_7,
      sddc_connector |-> V_0_1, runds_connector |-> V_0_2 ]

\* The requirements checked by _has_soapy_driver, with their driver names.
SoapyDriverOf ==
    [ soapy_rtl_sdr |-> "rtlsdr", soapy_sdrplay |-> "sdrplay", soapy_airspy |-> "airspy",
      soapy_airspyhf |-> "airspyhf", soapy_afedri |-> "afedri", soapy_lime_sdr |-> "lime",
      soapy_pluto_sdr |-> "plutosdr", soapy_remote |-> "remote", soapy_uhd |-> "uhd",
      soapy_radioberry |-> "radioberry", soapy_hackrf |-> "hackrf",
      soapy_fcdpp |-> "fcdpp", soapy_bladerf |-> "bladerf", soapy_sddc |-> "SDDC" ]

\* The requirements checked by importing a library and its bindings.
ModuleOf == [csdr |-> V_0_19_0, digiham |-> V_0_6, csdreti |-> V_0_1]

\* The requirements checked by has_wsjtx_2_3 and has_wsjtx_2_4.
WsjtxMinOf == [wsjtx_2_3 |-> V_2_3, wsjtx_2_4 |-> V_2_4]

\* has_requirement and has_requirements are has_<r> attributes themselves, for
\* these r; called as method(), without their argument, they raise TypeError.
DispatchMethods == {"requirement", "requirements"}

\* The names r for which FeatureDetector has a callable attribute has_<r>.
Methods ==
    DOMAIN CommandOf \cup DOMAIN ConnectorOf \cup DOMAIN SoapyDriverOf
    \cup DOMAIN ModuleOf \cup DOMAIN WsjtxMinOf
    \cup {"js8py", "paho_mqtt", "codecserver_ambe", "wsjtx"}
    \cup DispatchMethods

\* _get_requirement_method(requirement): the name of the method, or "None".
get_requirement_method(requirement) ==
    IF requirement \in Methods THEN "has_" \o requirement ELSE "None"

\* A host h says, for some of its tools, in which conditions the tool is
\* found when a method looks at it (one condition for a tool that stays as it
\* is); a tool h does not name can be found in any of its conditions. The
\* tools are the executables of the commands, named by their requirements,
\* "jt9" and "wsprd", the connectors, "wsjtx_app_version", the python modules
\* and the "codecserver".
Found(h, tool, conditions) == IF tool \in DOMAIN h THEN h[tool] ELSE conditions

\* What has_codecserver_ambe meets: ImportError without digiham, else what
\* MbeSynthesizer does.
AmbeFound(h) ==
    {IF d.importable THEN c ELSE "ImportError" :
        d \in Found(h, "digiham", ModuleHost), c \in Found(h, "codecserver", CodecserverHost)}

\* Every result has_<r>() can have on the host h.
MethodResults(h, r) ==
    IF r \in DOMAIN CommandOf
    THEN {command_is_runnable(c, CommandOf[r].expected) : c \in Found(h, r, CommandHost)}
    ELSE IF r \in DOMAIN ConnectorOf
    THEN {check_connector(c, r, ConnectorOf[r]) :
              c \in Found(h, r, VersionHost(r \o " version "))}
    ELSE IF r \in DOMAIN SoapyDriverOf
    THEN {has_soapy_driver(c, SoapyDriverOf[r]) :
              c \in Found(h, "soapy_connector", DriverHost(SoapyDriverOf[r]))}
    ELSE IF r \in DOMAIN ModuleOf
    THEN {has_module(c, ModuleOf[r]) : c \in Found(h, r, ModuleHost)}
    ELSE IF r \in DOMAIN WsjtxMinOf
    THEN {has_wsjtx_min(w, v) :
              w \in {has_wsjtx(a, b) : a \in Found(h, "jt9", CommandHost),
                                       b \in Found(h, "wsprd", CommandHost)},
              v \in {has_wsjtx_version(c, WsjtxMinOf[r]) :
                        c \in Found(h, "wsjtx_app_version", VersionHost("WSJT-X "))}}
    ELSE IF r = "js8py" THEN {has_js8py(c) : c \in Found(h, r, StrictHost)}
    ELSE IF r = "paho_mqtt"
    THEN {has_paho_mqtt(c) : c \in Found(h, r, [importable : BOOLEAN])}
    ELSE IF r = "codecserver_ambe" THEN {has_codecserver_ambe(c) : c \in AmbeFound(h)}
    ELSE IF r \in DispatchMethods THEN {Raises("TypeError")}
    ELSE {has_wsjtx(a, b) : a \in Found(h, "jt9", CommandHost),
                            b \in Found(h, "wsprd", CommandHost)}

\* ------------------------------------------------------------ FeatureCache

\* FeatureCache.cachetime, timedelta(hours=2), in hours.
cachetime == 2

\* FeatureCache.__init__: an empty dict.
EmptyCache == <<>>

\* FeatureCache.has with the comparison turned round.
cache_has_reversed(cache, feature, t) ==
    IF feature \notin DOMAIN cache THEN FALSE
    ELSE IF cache[feature].valid_to > t THEN FALSE
    ELSE TRUE

\* FeatureCache.has without the look at valid_to.
cache_has_forever(cache, feature, t) == feature \in DOMAIN cache

\* FeatureCache.has with "<=": an entry is no longer valid at valid_to.
cache_has_strict(cache, feature, t) ==
    IF feature \notin DOMAIN cache THEN FALSE
    ELSE IF cache[feature].valid_to <= t THEN FALSE
    ELSE TRUE

\* FeatureCache.has(feature) at time t.
cache_has(cache, feature, t) ==
    IF feature \notin DOMAIN cache THEN FALSE
    ELSE IF cache[feature].valid_to < t THEN FALSE
    ELSE TRUE

\* FeatureCache.get(feature).
cache_get(cache, feature) == cache[feature].value

\* FeatureCache.set that drops the entries that have expired.
cache_set_evicting(cache, feature, value, t) ==
    [x \in {y \in DOMAIN cache : cache[y].valid_to >= t} \cup {feature} |->
        IF x = feature THEN [value |-> value, valid_to |-> t + cachetime] ELSE cache[x]]

\* FeatureCache.set that starts a new dict for the entry.
cache_set_alone(cache, feature, value, t) ==
    [x \in {feature} |-> [value |-> value, valid_to |-> t + cachetime]]

\* FeatureCache.set(feature, value) at time t: the dict afterwards.
cache_set(cache, feature, value, t) ==
    [x \in DOMAIN cache \cup {feature} |->
        IF x = feature THEN [value |-> value, valid_to |-> t + cachetime] ELSE cache[x]]

\* ----------------------------------------------------------- the dispatch

\* get_requirements with the KeyError answered by an empty list.
get_requirements_lenient(feature) ==
    IF feature \in DOMAIN features
    THEN [raised |-> FALSE, reqs |-> features[feature], exc |-> "none"]
    ELSE [raised |-> FALSE, reqs |-> <<>>, exc |-> "none"]

\* get_requirements(feature): the catalog's list, or UnknownFeatureException.
get_requirements(feature) ==
    IF feature \in DOMAIN features
    THEN [raised |-> FALSE, reqs |-> features[feature], exc |-> "none"]
    ELSE [raised |-> TRUE, reqs |-> <<>>, exc |-> "UnknownFeatureException"]

\* has_requirements: "passed = passed and self.has_requirement(requirement)".
\* has_requirement is called only while passed is still True ...
has_requirements_calls(passed) == passed
\* has_requirements with "or" for "and".
has_requirements_step_or(passed, v) == passed \/ v
\* ... and its value is the new passed.
has_requirements_step(passed, v) == passed /\ v

\* get_failed_requirements without the "not".
failed_step_inverted(failed, req, v) == IF v THEN Append(failed, req) ELSE failed

\* get_failed_requirements: the list comprehension keeps req when
\* "not self.has_requirement(req)".
failed_step(failed, req, v) == IF ~v THEN Append(failed, req) ELSE failed

\* requirement_details with "enabled" always on.
requirement_details_enabled(name, available) ==
    [ available |-> available,
      enabled |-> TRUE,
      description |-> get_requirement_method(name) ]

\* feature_report's requirement_details(name), given has_requirement(name).
\* The description is the doc of the requirement's method; the method's name
\* stands for its text.
requirement_details(name, available) ==
    [ available |-> available,
      enabled |-> available,
      description |-> get_requirement_method(name) ]

\* has_requirement with "result = True" before the method is looked up.
no_method_result_true == Returns(TRUE)

\* has_requirement on a miss: the method's result, or False when there is none.
no_method_result == Returns(FALSE)
probe_results(h, requirement) ==
    IF get_requirement_method(requirement) # "None"
    THEN MethodResults(h, requirement)
    ELSE {no_method_result}

\* ------------------------------------------------------------- the state

Threads == {"t1", "t2"}
\* The thread of the runs with one caller at a time.
MainThread == "t1"

VARIABLES
    now,             \* datetime.now(), in hours
    caches,          \* the FeatureCache objects constructed so far: their dicts
    sharedInstance,  \* FeatureCache.sharedInstance: 0 for None, or an index of caches
    th,              \* per thread: the public call it is in and where it stands
    ncalls,          \* the public calls made so far
    lastRet,         \* per requirement: what has_requirement last returned
    environ,         \* os.environ of the calling process: the names set in it
    run,             \* the detection strategy that is run step by step
    host             \* the host: per tool, the conditions it is found in

vars == <<now, caches, sharedInstance, th, ncalls, lastRet, environ, run, host>>

\* The requirement names the calls of a run can reach.
RECURSIVE ReqsOf(_)
ReqsOf(fs) ==
    IF fs = {} THEN {}
    ELSE LET f == CHOOSE x \in fs : TRUE
         IN Range(get_requirements(f).reqs) \cup ReqsOf(fs \ {f})
Names ==
    DirectArgs \cup WsjtxArgs \cup ReqsOf(FeatureArgs \cup Range(FeatureOrder))

\* The record of one has_requirement call: the requirement, the time of the
\* cache lookup, the entry found then, what the previous call for the same
\* requirement returned, whether the cache answered, whether the strategy was
\* run, and how the call ended (value, time, entry afterwards).
NoCall ==
    [ req |-> "none", inst |-> 0, start |-> 0, present |-> FALSE, entry_value |-> FALSE,
      valid_to |-> 0, prev |-> "none", hit |-> FALSE, invoked |-> FALSE,
      done |-> FALSE, raised |-> FALSE, value |-> FALSE, end |-> 0,
      after_value |-> FALSE, after_valid_to |-> 0 ]

Idle ==
    [ pc |-> "idle", op |-> "none", arg |-> "none", todo |-> <<>>, passed |-> TRUE,
      value |-> FALSE, failed |-> <<>>, avail |-> <<>>, details |-> <<>>,
      calls |-> <<>>, outcome |-> "none", exc |-> "none", hr |-> NoCall ]

BoolName(v) == IF v THEN "True" ELSE "False"

\* ------------------------------------------ the calls a public method makes

\* The has_requirement calls of has_requirements(get_requirements(f)), of
\* get_failed_requirements(f) and of feature_details(f)'s requirements dict.
Items(f, role) ==
    LET reqs == get_requirements(f).reqs
    IN [i \in 1..Len(reqs) |->
          [req |-> reqs[i], role |-> role, feature |-> f, last |-> i = Len(reqs)]]

\* feature_availability (details = FALSE) and feature_report (details = TRUE)
\* over the features fs: per feature is_available, then the requirement details.
RECURSIVE PlanOver(_, _)
PlanOver(fs, details) ==
    IF fs = <<>> THEN <<>>
    ELSE Items(Head(fs), "avail")
         \o (IF details THEN Items(Head(fs), "detail") ELSE <<>>)
         \o PlanOver(Tail(fs), details)

Plan(op, arg) ==
    IF op = "is_available" THEN Items(arg, "avail")
    ELSE IF op = "get_failed_requirements" THEN Items(arg, "failed")
    ELSE IF op = "feature_availability" THEN PlanOver(FeatureOrder, FALSE)
    ELSE IF op = "feature_report" THEN PlanOver(FeatureOrder, TRUE)
    ELSE <<[req |-> arg, role |-> "direct", feature |-> "none", last |-> TRUE]>>

\* The thread s after the head of its todo list is dealt with: v is what
\* has_requirement returned, or, for a call has_requirements leaves out, nothing
\* (called = FALSE).
Incorporate(s, v, called) ==
    LET item == Head(s.todo)
        passed == IF item.role = "avail" /\ called
                  THEN has_requirements_step(s.passed, v) ELSE s.passed
        closes == item.role = "avail" /\ item.last
    IN [s EXCEPT
          !.todo = Tail(s.todo),
          !.calls = IF called THEN Append(@, [req |-> item.req, value |-> v]) ELSE @,
          !.passed = IF closes THEN TRUE ELSE passed,
          !.value = IF closes THEN passed
                    ELSE IF item.role = "direct" THEN v ELSE @,
          !.avail = IF closes THEN (item.feature :> passed) @@ @ ELSE @,
          !.failed = IF item.role = "failed" THEN failed_step(@, item.req, v) ELSE @,
          !.details = IF item.role = "detail"
                      THEN (item.feature :>
                              ((item.req :> requirement_details(item.req, v))
                               @@ (IF item.feature \in DOMAIN @ THEN @[item.feature]
                                   ELSE <<>>)))
                           @@ @
                      ELSE @ ]

\* The thread s up to its next has_requirement call, or to its return.
RECURSIVE Settle(_)
Settle(s) ==
    IF s.todo = <<>> THEN [s EXCEPT !.pc = "done", !.outcome = "returned"]
    ELSE IF Head(s.todo).role = "avail" /\ ~has_requirements_calls(s.passed)
    THEN Settle(Incorporate(s, FALSE, FALSE))
    ELSE [s EXCEPT !.pc = "check"]

\* A public method is entered: is_available and get_failed_requirements look
\* the feature up first.
Start(op, arg) ==
    LET looked == get_requirements(arg)
    IN IF op \in {"is_available", "get_failed_requirements"} /\ looked.raised
       THEN [Idle EXCEPT !.pc = "done", !.op = op, !.arg = arg,
                         !.outcome = "raised", !.exc = looked.exc]
       ELSE Settle([Idle EXCEPT !.op = op, !.arg = arg, !.todo = Plan(op, arg)])

\* feature_report's result: per feature, "available" and "requirements".
ReportOf(s) ==
    [f \in DOMAIN s.avail |->
        [available |-> s.avail[f], requirements |-> s.details[f]]]

\* ------------------------------------------- a strategy run, step by step

\* The names os.environ may hold when the detector is used.
Environs == {{"PATH"}, {"PATH", "DISPLAY"}, {"PATH", "DISPLAY", "HOME"}}

\* The timeout of process.wait in command_is_runnable, in seconds.
WaitTimeout == 10

\* The return code process.wait() gives for a process ended by process.kill().
KilledCode == -9

\* Whose process it is while it runs: the caller's, or, for a program that
\* takes the identity of another user, one the caller may not signal.
Owners == {"caller", "other"}

\* A process a command starts: whether it ends on its own, after how many
\* seconds of the caller's waits at the latest and with which exit status,
\* whose it is, and which of the kill signals sent to it ends it (0: none
\* does, the process cannot be killed while it hangs).
ProcessKinds ==
    [exits : {TRUE}, after : {0, 5, 25}, code : {0, 1, 127, 255}, owner : Owners,
     heeds : 0..2]
    \cup [exits : {FALSE}, after : {0}, code : {0}, owner : Owners, heeds : 0..2]

NoProcess == [state |-> "none",
              kind |-> [exits |-> FALSE, after |-> 0, code |-> 0, owner |-> "caller",
                        heeds |-> 0],
              rc |-> 0, ended_at |-> 0]

\* The process of kind k right after subprocess.Popen started it.
Started(k) ==
    IF k.exits /\ k.after = 0
    THEN [state |-> "terminated", kind |-> k, rc |-> k.code, ended_at |-> 0]
    ELSE [state |-> "running", kind |-> k, rc |-> 0, ended_at |-> 0]

\* Whether the process ends at some time, left alone or killed by the
\* signals the wait loop sends it.
EndsEventually(p) ==
    \/ p.state = "terminated"
    \/ /\ p.state = "running"
       /\ p.kind.exits \/ (p.kind.heeds # 0 /\ p.kind.owner = "caller")

\* No strategy is being run.
NoRun ==
    [ pc |-> "idle", strategy |-> "none", command |-> "none", expected |-> NoExpected,
      environ_before |-> {}, env |-> {}, launch |-> "none", spawned |-> FALSE,
      child_env |-> {}, proc |-> NoProcess, waited |-> 0, elapsed |-> 0,
      expiries |-> 0, warnings |-> 0, kills |-> 0, rc |-> 0,
      matched |-> FALSE, version |-> <<>>, exited |-> FALSE,
      requirement |-> "none", prints |-> 0,
      line |-> [prefix |-> "", rest |-> <<>>, utf8 |-> TRUE], drivers |-> {},
      result |-> Returns(FALSE) ]

\* A host all of whose tools can be found in any condition every time they
\* are looked at: nothing stays as it is.
AnyHost == <<>>

\* ------------------------------------------------------------- the actions

Init ==
    /\ now = 0
    /\ caches = <<>>
    /\ sharedInstance = 0
    /\ th = [t \in Threads |-> Idle]
    /\ ncalls = 0
    /\ lastRet = [r \in Names |-> "none"]
    /\ environ = {"PATH", "DISPLAY"}
    /\ run = NoRun
    /\ host = AnyHost

CanCall(t) == th[t].pc \in {"idle", "done"} /\ ncalls < MaxCalls

Enter(t, op, arg) ==
    /\ th' = [th EXCEPT ![t] = Start(op, arg)]
    /\ ncalls' = ncalls + 1
    /\ UNCHANGED <<now, caches, sharedInstance, lastRet, environ, run, host>>

CallIsAvailable(t) ==
    /\ CanCall(t)
    /\ \E f \in FeatureArgs : Enter(t, "is_available", f)

CallGetFailedRequirements(t) ==
    /\ CanCall(t)
    /\ \E f \in FeatureArgs : Enter(t, "get_failed_requirements", f)

CallFeatureAvailability(t) ==
    /\ CanCall(t)
    /\ Enter(t, "feature_availability", "none")

CallFeatureReport(t) ==
    /\ CanCall(t)
    /\ Enter(t, "feature_report", "none")

CallHasRequirement(t) ==
    /\ CanCall(t)
    /\ \E r \in DirectArgs : Enter(t, "has_requirement", r)

\* has_requirement's cache lookup through the cache object i, "if
\* cache.has(requirement)": a hit goes on to cache.get, a miss to the
\* requirement's method.
Lookup(t, i) ==
    LET s == th[t]
        r == Head(s.todo).req
        c == caches[i]
        found == r \in DOMAIN c
        call == [NoCall EXCEPT
                    !.req = r, !.inst = i, !.start = now, !.present = found,
                    !.entry_value = IF found THEN c[r].value ELSE FALSE,
                    !.valid_to = IF found THEN c[r].valid_to ELSE 0,
                    !.prev = lastRet[r]]
    IN /\ th' = [th EXCEPT ![t] =
              IF cache_has(c, r, now)
              THEN [s EXCEPT !.pc = "get", !.hr = [call EXCEPT !.hit = TRUE]]
              ELSE [s EXCEPT !.pc = "probing", !.hr = call]]
       /\ UNCHANGED <<now, caches, sharedInstance, ncalls, lastRet, environ, run, host>>

\* "return cache.get(requirement)" after the hit: self.cache[feature]["value"]
\* as the dict is by now, a KeyError were the key not in it.
CacheGet(t) ==
    /\ th[t].pc = "get"
    /\ LET s == th[t]
           r == s.hr.req
           c == caches[s.hr.inst]
       IN IF r \in DOMAIN c
          THEN LET v == cache_get(c, r)
                   ended == [s.hr EXCEPT !.done = TRUE, !.value = v, !.end = now,
                                         !.after_value = c[r].value,
                                         !.after_valid_to = c[r].valid_to]
               IN /\ th' = [th EXCEPT ![t] =
                         Settle(Incorporate([s EXCEPT !.hr = ended], v, TRUE))]
                  /\ lastRet' = [lastRet EXCEPT ![r] = BoolName(v)]
          ELSE /\ th' = [th EXCEPT ![t] =
                      [s EXCEPT !.pc = "done", !.outcome = "raised", !.exc = "KeyError",
                                !.todo = <<>>,
                                !.hr = [s.hr EXCEPT !.done = TRUE, !.raised = TRUE,
                                                    !.end = now]]]
               /\ UNCHANGED lastRet
    /\ UNCHANGED <<now, caches, sharedInstance, ncalls, environ, run, host>>

\* FeatureCache.getSharedInstance, the test "sharedInstance is None": with an
\* instance there it is returned and looked into, without one the caller goes on
\* to construct it.
GetSharedInstance(t) ==
    /\ th[t].pc = "check"
    /\ IF sharedInstance = 0
       THEN /\ th' = [th EXCEPT ![t].pc = "gsi_create"]
            /\ UNCHANGED <<now, caches, sharedInstance, ncalls, lastRet, environ, run, host>>
       ELSE Lookup(t, sharedInstance)

\* FeatureCache.sharedInstance = FeatureCache()
CreateInstance(t) ==
    /\ th[t].pc = "gsi_create"
    /\ caches' = Append(caches, EmptyCache)
    /\ sharedInstance' = Len(caches) + 1
    /\ th' = [th EXCEPT ![t].pc = "gsi_return"]
    /\ UNCHANGED <<now, ncalls, lastRet, environ, run, host>>

\* return FeatureCache.sharedInstance, and the lookup in it.
ReturnInstance(t) ==
    /\ th[t].pc = "gsi_return"
    /\ Lookup(t, sharedInstance)

\* has_requirement storing False for a requirement whose method raised.
after_raise_false(cache, feature, t) == cache_set(cache, feature, FALSE, t)

\* The cache after the requirement's method raised at time t: the error leaves
\* has_requirement before cache.set is reached.
after_raise(cache, feature, t) == cache

\* has_wsjtx_2_3 and has_wsjtx_2_4 asking self.has_requirement("wsjtx"), which
\* answers from the cache or runs has_wsjtx and stores its result.
method_runs_through_cache(h, cache, requirement, t) ==
    IF requirement \notin DOMAIN WsjtxMinOf
    THEN {[result |-> o, cache |-> cache] : o \in probe_results(h, requirement)}
    ELSE LET inner == IF cache_has(cache, "wsjtx", t)
                      THEN {[result |-> Returns(cache_get(cache, "wsjtx")), cache |-> cache]}
                      ELSE {[result |-> o,
                             cache |-> IF o.raised THEN cache
                                       ELSE cache_set(cache, "wsjtx", o.value, t)] :
                                o \in MethodResults(h, "wsjtx")}
         IN {[result |-> AndThen(m.result,
                                 has_wsjtx_version(c, WsjtxMinOf[requirement])),
              cache |-> m.cache] :
                m \in inner, c \in Found(h, "wsjtx_app_version", VersionHost("WSJT-X "))}

\* "result = method()" on the host h with the cache as it is at time t: every
\* result the method can have, and the cache as the method leaves it. The
\* methods call each other directly (self.has_wsjtx(),
\* self._has_soapy_driver(...)), never has_requirement, and none of them
\* touches the FeatureCache.
method_runs(h, cache, requirement, t) ==
    {[result |-> o, cache |-> cache] : o \in probe_results(h, requirement)}

\* The requirement's method has run on the host: an error goes up to the
\* caller of the public method; a value is stored with cache.set and returned.
Probe(t) ==
    /\ th[t].pc = "probing"
    /\ LET s == th[t]
           r == s.hr.req
           i == s.hr.inst
       IN \E m \in method_runs(host, caches[i], r, now) :
            LET o == m.result
            IN
            IF o.raised
            THEN /\ th' = [th EXCEPT ![t] =
                        [s EXCEPT !.pc = "done", !.outcome = "raised", !.exc = o.exc,
                                  !.todo = <<>>,
                                  !.hr = [s.hr EXCEPT !.invoked = TRUE, !.done = TRUE,
                                                      !.raised = TRUE, !.end = now]]]
                 /\ caches' = [caches EXCEPT ![i] = after_raise(m.cache, r, now)]
                 /\ UNCHANGED <<now, sharedInstance, ncalls, lastRet, environ, run, host>>
            ELSE LET c == cache_set(m.cache, r, o.value, now)
                     ended == [s.hr EXCEPT
                                  !.invoked = get_requirement_method(r) # "None",
                                  !.done = TRUE, !.value = o.value, !.end = now,
                                  !.after_value = c[r].value,
                                  !.after_valid_to = c[r].valid_to]
                 IN /\ caches' = [caches EXCEPT ![i] = c]
                    /\ th' = [th EXCEPT ![t] =
                           Settle(Incorporate([s EXCEPT !.hr = ended], o.value, TRUE))]
                    /\ lastRet' = [lastRet EXCEPT ![r] = BoolName(o.value)]
                    /\ UNCHANGED <<now, sharedInstance, ncalls, environ, run, host>>

\* An hour passes.
Tick ==
    /\ now < MaxTime
    /\ now' = now + 1
    /\ UNCHANGED <<caches, sharedInstance, th, ncalls, lastRet, environ, run, host>>

Step(t) ==
    \/ GetSharedInstance(t)
    \/ CreateInstance(t)
    \/ ReturnInstance(t)
    \/ CacheGet(t)
    \/ Probe(t)

\* One caller at a time.
Next ==
    \/ CallIsAvailable(MainThread)
    \/ CallGetFailedRequirements(MainThread)
    \/ CallHasRequirement(MainThread)
    \/ Step(MainThread)
    \/ Tick

Spec == Init /\ [][Next]_vars

\* Every thread makes one call, of has_requirement or of is_available, and the
\* calls of the threads interleave.
ThreadHasRequirement(t) ==
    /\ th[t].pc = "idle"
    /\ \E r \in RequirementArgs : Enter(t, "has_requirement", r)

ThreadIsAvailable(t) ==
    /\ th[t].pc = "idle"
    /\ \E f \in FeatureArgs : Enter(t, "is_available", f)

\* An hour passes while the two threads run.
ThreadTick ==
    /\ now < MaxThreadTime
    /\ now' = now + 1
    /\ UNCHANGED <<caches, sharedInstance, th, ncalls, lastRet, environ, run, host>>

ThreadNext ==
    \/ \E t \in Threads : ThreadHasRequirement(t) \/ ThreadIsAvailable(t) \/ Step(t)
    \/ ThreadTick

ThreadSpec == Init /\ [][ThreadNext]_vars

\* The tools of a host.
CommandTools == DOMAIN CommandOf \cup {"jt9", "wsprd"}
VersionTools == DOMAIN ConnectorOf \cup {"wsjtx_app_version"}
ModuleTools == DOMAIN ModuleOf
Tools == CommandTools \cup VersionTools \cup ModuleTools
         \cup {"js8py", "paho_mqtt", "codecserver"}

\* The drivers soapy_connector can list.
AllDrivers == {SoapyDriverOf[r] : r \in DOMAIN SoapyDriverOf}

\* The tool as it is on a host that has everything, in versions that
\* suffice; soapy_connector with all the drivers.
Good(tool) ==
    IF tool \in CommandTools THEN [launch |-> "started", kill |-> "none", rc |-> 0]
    ELSE IF tool = "soapy_connector"
    THEN [launch |-> "started", exited |-> TRUE, drivers |-> AllDrivers,
          line |-> [prefix |-> tool \o " version ", rest |-> V_0_7, utf8 |-> TRUE]]
    ELSE IF tool = "wsjtx_app_version"
    THEN [launch |-> "started", exited |-> TRUE,
          line |-> [prefix |-> "WSJT-X ", rest |-> <<"2", ".", "4", ".", "1">>,
                    utf8 |-> TRUE]]
    ELSE IF tool \in VersionTools
    THEN [launch |-> "started", exited |-> TRUE,
          line |-> [prefix |-> tool \o " version ", rest |-> V_0_7, utf8 |-> TRUE]]
    ELSE IF tool \in ModuleTools
    THEN [importable |-> TRUE, lib |-> V_0_19_0, binding |-> V_0_19_0]
    ELSE IF tool = "js8py"
    THEN [importable |-> TRUE, strict |-> StrictVersion(<<1, 0, 0>>, <<>>)]
    ELSE IF tool = "paho_mqtt" THEN [importable |-> TRUE]
    ELSE "True"

\* The tool on a host that does not have it: the executable is not found, the
\* module is not importable, no codecserver answers.
Missing(tool) ==
    IF tool \in CommandTools \cup VersionTools
    THEN [Good(tool) EXCEPT !.launch = "FileNotFoundError"]
    ELSE IF tool = "codecserver" THEN "ConnectionError"
    ELSE [Good(tool) EXCEPT !.importable = FALSE]

\* The versions a tool is looked at in, other than the good one: an older
\* one and the malformed ones.
FaultVersions(tool) ==
    (IF tool = "wsjtx_app_version" THEN {V_2_2, V_2_3} ELSE {V_0_6})
    \cup {<<"0", ".", "x">>, <<>>}

\* The conditions of a tool that is there but not as on the host that has
\* everything.
\* A command: it may not be executed, it is no program the kernel can run,
\* it exits with 1, or it hangs and may not be signalled.
CommandFaults(tool) ==
    { [Good(tool) EXCEPT !.launch = "PermissionError"],
      [Good(tool) EXCEPT !.launch = "OSError"],
      [Good(tool) EXCEPT !.rc = 1],
      [Good(tool) EXCEPT !.kill = "PermissionError"] }
\* A tool asked for its version: it may not be executed, it is no program
\* the kernel can run, it prints a line that is no version line or not UTF-8,
\* another version, or does not end after the line; soapy_connector also
\* lists no driver, or two of them, or a line that is not UTF-8.
VersionFaults(tool) ==
    { [Good(tool) EXCEPT !.launch = "PermissionError"],
      [Good(tool) EXCEPT !.launch = "OSError"],
      [Good(tool) EXCEPT !.line.prefix = "usage: "],
      [Good(tool) EXCEPT !.line.utf8 = FALSE],
      [Good(tool) EXCEPT !.exited = FALSE] }
    \cup {[Good(tool) EXCEPT !.line.rest = v] : v \in FaultVersions(tool)}
    \cup (IF tool = "soapy_connector"
          THEN {[Good(tool) EXCEPT !.drivers = ds] :
                   ds \in {{}, {"rtlsdr", "sdrplay"}, AllDrivers \cup {NotUtf8}}}
          ELSE {})
\* A module: the library or the bindings in another version.
ModuleFaults(tool) ==
    {[Good(tool) EXCEPT !.lib = v] : v \in {V_0_6, <<"0", ".", "x">>, <<>>}}
    \cup {[Good(tool) EXCEPT !.binding = v] : v \in {V_0_1, <<>>}}
Faults(tool) ==
    {Missing(tool)}
    \cup (IF tool \in CommandTools THEN CommandFaults(tool)
          ELSE IF tool \in VersionTools THEN VersionFaults(tool)
          ELSE IF tool \in ModuleTools THEN ModuleFaults(tool)
          ELSE IF tool = "js8py"
          THEN {[Good(tool) EXCEPT !.strict = v] :
                   v \in {StrictVersion(<<0, 1, 0>>, <<>>),
                          StrictVersion(<<0, 2, 0>>, <<"a", 1>>),
                          StrictVersion(<<0, 2, 0>>, <<>>),
                          StrictVersion(<<0, 2, 1>>, <<"b", 2>>)}}
          ELSE IF tool = "codecserver" THEN CodecserverHost \ {"True", Missing(tool)}
          ELSE {})

\* The condition a tool alternates with the good one while it is replaced
\* during a run: a command, a module or the codecserver is away for a time, a
\* tool asked for its version is a build that prints another first line.
Replacement(tool) ==
    IF tool \in VersionTools THEN [Good(tool) EXCEPT !.line.prefix = "usage: "]
    ELSE Missing(tool)

\* The host that has everything, and the host that has nothing; their tools
\* stay as they are.
GoodHost == [t \in Tools |-> {Good(t)}]
BareHost == [t \in Tools |-> {Missing(t)}]

\* The hosts that have everything but one tool, which has one of its faults
\* and stays like that.
FaultyHosts ==
    UNION {{[GoodHost EXCEPT ![t] = {c}] : c \in Faults(t)} : t \in Tools}

\* The hosts that have everything, on which one tool is being replaced: each
\* time it is looked at it is there as before or in its replacement.
ReplacedHosts ==
    {[GoodHost EXCEPT ![t] = {Good(t), Replacement(t)}] : t \in Tools}

\* The hosts of the report runs.
ReportHosts == {GoodHost, BareHost} \cup FaultyHosts \cup ReplacedHosts

ReportInit ==
    /\ now = 0
    /\ caches = <<>>
    /\ sharedInstance = 0
    /\ th = [t \in Threads |-> Idle]
    /\ ncalls = 0
    /\ lastRet = [r \in Names |-> "none"]
    /\ environ = {"PATH", "DISPLAY"}
    /\ run = NoRun
    /\ host \in ReportHosts

\* More than the validity of a cache entry passes.
Pause ==
    /\ now + cachetime + 1 <= MaxTime
    /\ now' = now + cachetime + 1
    /\ UNCHANGED <<caches, sharedInstance, th, ncalls, lastRet, environ, run, host>>

\* One call of feature_availability or of feature_report, over all the
\* features of the catalog, during which the clock can move on past the
\* validity of what was cached before.
ReportNext ==
    \/ th[MainThread].pc = "idle" /\ CallFeatureAvailability(MainThread)
    \/ th[MainThread].pc = "idle" /\ CallFeatureReport(MainThread)
    \/ Step(MainThread)
    \/ Pause

ReportSpec == ReportInit /\ [][ReportNext]_vars

\* One caller asking for the requirements of the WSJT-X suite.
CallHasWsjtx(t) ==
    /\ CanCall(t)
    /\ \E r \in WsjtxArgs : Enter(t, "has_requirement", r)

WsjtxNext ==
    \/ CallHasWsjtx(MainThread)
    \/ Step(MainThread)
    \/ Tick

WsjtxSpec == Init /\ [][WsjtxNext]_vars

\* ------------------------------------------ the strategies, step by step

\* The requirements whose strategies are run step by step.
ProbedCommands == {"nmux", "dream"}
ProbedConnectors == {"soapy_connector", "runds_connector"}
ProbedDrivers == {"soapy_rtl_sdr"}
ProbedWsjtx == {"wsjtx_2_3"}

ProbeInit ==
    /\ now = 0
    /\ caches = <<>>
    /\ sharedInstance = 0
    /\ th = [t \in Threads |-> Idle]
    /\ ncalls = 0
    /\ lastRet = [r \in Names |-> "none"]
    /\ environ \in Environs
    /\ run = NoRun
    /\ host = AnyHost

detectorVars == <<now, caches, sharedInstance, th, ncalls, lastRet>>

\* command_is_runnable is entered: env = os.environ.copy(); env.pop("DISPLAY", None)
CallCommandIsRunnable ==
    /\ run.pc = "idle"
    /\ \E r \in ProbedCommands :
         run' = [NoRun EXCEPT !.pc = "popen", !.strategy = "command_is_runnable",
                              !.command = CommandOf[r].command,
                              !.expected = CommandOf[r].expected,
                              !.environ_before = environ,
                              !.env = environ \ {"DISPLAY"}]
    /\ UNCHANGED <<detectorVars, environ, host>>

\* subprocess.Popen(cmd, ..., env=env): the process is started with env, or
\* the launch fails; FileNotFoundError is caught and answered False.
Popen ==
    /\ run.pc = "popen"
    /\ \E l \in Launch, k \in ProcessKinds :
         run' = IF l = "started"
                THEN [run EXCEPT !.pc = "wait", !.launch = l, !.spawned = TRUE,
                                 !.child_env = run.env, !.proc = Started(k)]
                ELSE [run EXCEPT !.pc = "done", !.launch = l,
                                 !.result = command_is_runnable(
                                                [launch |-> l, kill |-> "none", rc |-> 0],
                                                run.expected)]
    /\ UNCHANGED <<detectorVars, environ, host>>

\* A second passes while process.wait(10) waits; the process may end in it.
Second ==
    /\ run.pc = "wait"
    /\ run.proc.state = "running"
    /\ run.waited < WaitTimeout
    /\ LET t == run.elapsed + 1
           p == run.proc
           q == IF p.kind.exits /\ t >= p.kind.after
                THEN [p EXCEPT !.state = "terminated", !.rc = p.kind.code, !.ended_at = t]
                ELSE p
       IN run' = [run EXCEPT !.waited = @ + 1, !.elapsed = t, !.proc = q]
    /\ UNCHANGED <<detectorVars, environ, host>>

\* rc = process.wait(10) returns the return code of the ended process; break.
WaitReturns ==
    /\ run.pc = "wait"
    /\ run.proc.state = "terminated"
    /\ run' = [run EXCEPT !.pc = "compare", !.rc = run.proc.rc]
    /\ UNCHANGED <<detectorVars, environ, host>>

\* process.wait(10) raises TimeoutExpired: the process still runs after 10 s.
WaitExpires ==
    /\ run.pc = "wait"
    /\ run.proc.state = "running"
    /\ run.waited = WaitTimeout
    /\ run.expiries < MaxRounds
    /\ run' = [run EXCEPT !.pc = "warn", !.expiries = @ + 1]
    /\ UNCHANGED <<detectorVars, environ, host>>

\* logger.warning("feature check command ... did not return after 10 seconds!")
\* The handlers of the caller's logging take their time with the record, and
\* none of it is a second of a wait: a process that ends on its own may have
\* ended when logger.warning returns.
LogWarning ==
    /\ run.pc = "warn"
    /\ \E ends \in {FALSE} \cup {x \in {TRUE} : run.proc.state = "running"
                                                 /\ run.proc.kind.exits} :
         LET p == run.proc
             q == IF ends
                  THEN [p EXCEPT !.state = "terminated", !.rc = p.kind.code,
                                 !.ended_at = run.elapsed]
                  ELSE p
         IN run' = [run EXCEPT !.pc = "kill", !.warnings = @ + 1, !.proc = q]
    /\ UNCHANGED <<detectorVars, environ, host>>

\* process.kill(): nothing is sent to a process that has ended; else the
\* signal is sent, and back to "while True", the next process.wait(10); or
\* the caller may not signal the process and PermissionError leaves the loop
\* and command_is_runnable, which catches FileNotFoundError only, while the
\* process runs on.
Kill ==
    /\ run.pc = "kill"
    /\ LET n == run.kills + 1
           p == run.proc
           q == IF p.state = "running" /\ p.kind.heeds = n
                THEN [p EXCEPT !.state = "terminated", !.rc = KilledCode,
                               !.ended_at = run.elapsed]
                ELSE p
       IN IF p.state = "running" /\ p.kind.owner # "caller"
          THEN run' = [run EXCEPT
                          !.pc = "done", !.kills = n,
                          !.result = command_is_runnable(
                                         [launch |-> "started", kill |-> "PermissionError",
                                          rc |-> 0],
                                         run.expected)]
          ELSE run' = [run EXCEPT !.pc = "wait", !.kills = n, !.waited = 0, !.proc = q]
    /\ UNCHANGED <<detectorVars, environ, host>>

\* The return: rc != 32512, or rc == expected_result.
Compare ==
    /\ run.pc = "compare"
    /\ run' = [run EXCEPT !.pc = "done",
                          !.result = command_is_runnable(
                                         [launch |-> "started", kill |-> "none",
                                          rc |-> run.rc],
                                         run.expected)]
    /\ UNCHANGED <<detectorVars, environ, host>>

\* When the output a strategy reads is there, in seconds after the start of
\* the process: the first line for readline(), the end of the output for the
\* loop over process.stdout. Silent: the process prints nothing, keeps its
\* output open and runs on.
Silent == -1
OutputTimes == {0, 2, Silent}

\* The text a version line starts with.
VersionPrefix(strategy, requirement) ==
    IF strategy = "_check_connector" THEN requirement \o " version " ELSE "WSJT-X "

\* What the strategy gives for what it has met: how the launch went, the line
\* or the drivers read, and whether process.wait(1) saw the process end.
ReaderResult(strategy, requirement, launch, line, drivers, exited) ==
    IF strategy = "_check_connector"
    THEN check_connector([launch |-> launch, line |-> line, exited |-> exited],
                         requirement, ConnectorOf[requirement])
    ELSE IF strategy = "_has_soapy_driver"
    THEN has_soapy_driver([launch |-> launch, drivers |-> drivers, exited |-> exited],
                          SoapyDriverOf[requirement])
    ELSE has_wsjtx_version([launch |-> launch, line |-> line, exited |-> exited],
                           WsjtxMinOf[requirement])

\* A strategy that reads the output of a command is entered.
EnterReader(strategy, command, requirement) ==
    /\ run.pc = "idle"
    /\ run' = [NoRun EXCEPT !.pc = "spawn", !.strategy = strategy, !.command = command,
                            !.requirement = requirement, !.environ_before = environ]
    /\ UNCHANGED <<detectorVars, environ, host>>

\* _check_connector(command, required_version)
CheckConnector ==
    \E r \in ProbedConnectors : EnterReader("_check_connector", r, r)

\* _has_soapy_driver(driver)
HasSoapyDriver ==
    \E r \in ProbedDrivers : EnterReader("_has_soapy_driver", "soapy_connector", r)

\* _has_wsjtx_version(required_version)
HasWsjtxVersion ==
    \E r \in ProbedWsjtx : EnterReader("_has_wsjtx_version", "wsjtx_app_version", r)

\* subprocess.Popen([...], stdout=subprocess.PIPE) without an env argument:
\* the process started gets os.environ as it is; FileNotFoundError is caught
\* and answered False, another error of the launch goes up.
PopenReader ==
    /\ run.pc = "spawn"
    /\ \E l \in Launch, p \in OutputTimes :
         run' = IF l = "started"
                THEN [run EXCEPT !.pc = "read", !.launch = l, !.spawned = TRUE,
                                 !.child_env = environ, !.prints = p,
                                 !.proc = [NoProcess EXCEPT !.state = "running"]]
                ELSE [run EXCEPT !.pc = "done", !.launch = l,
                                 !.result = ReaderResult(run.strategy, run.requirement,
                                                         l, run.line, {}, FALSE)]
    /\ UNCHANGED <<detectorVars, environ, host>>

\* A second passes while the strategy waits in process.stdout.readline(), or
\* in the loop over process.stdout, for output that is not there yet.
ReadWaits ==
    /\ run.pc = "read"
    /\ run.prints = Silent \/ run.elapsed < run.prints
    /\ run.elapsed < MaxRead
    /\ run' = [run EXCEPT !.elapsed = @ + 1]
    /\ UNCHANGED <<detectorVars, environ, host>>

\* The output is read and decoded; a line that is not UTF-8 ends the strategy
\* with UnicodeDecodeError, the process having ended by then or not.
\* _has_soapy_driver has all the lines and goes on to process.wait(1); the
\* version checks have the first line: one that does not match is answered
\* False at once, the process having ended by then or not, one that matches
\* leads to process.wait(1).
ReadsOutput ==
    /\ run.pc = "read"
    /\ run.prints # Silent
    /\ run.elapsed >= run.prints
    /\ IF run.strategy = "_has_soapy_driver"
       THEN \E ds \in DriverLists(SoapyDriverOf[run.requirement]) :
               IF NotUtf8 \notin ds
               THEN run' = [run EXCEPT !.pc = "wait1", !.drivers = ds, !.matched = TRUE]
               ELSE \E ended \in BOOLEAN :
                       run' = [run EXCEPT
                                  !.pc = "done", !.drivers = ds, !.exited = ended,
                                  !.proc.state = IF ended THEN "terminated" ELSE "running",
                                  !.result = ReaderResult(run.strategy, run.requirement,
                                                          "started", run.line, ds, ended)]
       ELSE \E line \in HostLines(VersionPrefix(run.strategy, run.requirement)) :
               IF /\ line.utf8
                  /\ VersionLineMatches(VersionPrefix(run.strategy, run.requirement), line)
               THEN run' = [run EXCEPT !.pc = "wait1", !.line = line, !.matched = TRUE,
                                       !.version = line.rest]
               ELSE \E ended \in BOOLEAN :
                       run' = [run EXCEPT
                                  !.pc = "done", !.line = line, !.matched = FALSE,
                                  !.version = line.rest, !.exited = ended,
                                  !.proc.state = IF ended THEN "terminated" ELSE "running",
                                  !.result = ReaderResult(run.strategy, run.requirement,
                                                          "started", line, {}, ended)]
    /\ UNCHANGED <<detectorVars, environ, host>>

\* process.wait(1) and the return: the process has ended within the second
\* and the strategy answers, or it has not and TimeoutExpired goes up, the
\* process running on.
WaitOne ==
    /\ run.pc = "wait1"
    /\ \E ended \in BOOLEAN :
         run' = [run EXCEPT
                    !.pc = "done", !.exited = ended,
                    !.elapsed = IF ended THEN @ ELSE @ + 1,
                    !.proc.state = IF ended THEN "terminated" ELSE "running",
                    !.result = ReaderResult(run.strategy, run.requirement, "started",
                                            run.line, run.drivers, ended)]
    /\ UNCHANGED <<detectorVars, environ, host>>

ProbeNext ==
    \/ CallCommandIsRunnable
    \/ Popen
    \/ Second
    \/ WaitReturns
    \/ WaitExpires
    \/ LogWarning
    \/ Kill
    \/ Compare
    \/ CheckConnector
    \/ HasSoapyDriver
    \/ HasWsjtxVersion
    \/ PopenReader
    \/ ReadWaits
    \/ ReadsOutput
    \/ WaitOne

\* One strategy is run against one host.
ProbeSpec == ProbeInit /\ [][ProbeNext]_vars

\* The same, with the calling thread going on and the time passing.
ProbeFairSpec == ProbeSpec /\ WF_vars(ProbeNext)

\* -------------------------------------------------------------- the claims

Returned(t, op) == th[t].pc = "done" /\ th[t].op = op /\ th[t].outcome = "returned"

\* C1: is_available and get_failed_requirements, called with a feature name
\* that is no key of the catalog, end in UnknownFeatureException; they never
\* return a value for such a name.
C1_UnknownFeatureRaises ==
    \A t \in Threads :
        ( /\ th[t].pc = "done"
          /\ th[t].op \in {"is_available", "get_failed_requirements"}
          /\ th[t].arg \notin DOMAIN features )
        => th[t].outcome = "raised" /\ th[t].exc = "UnknownFeatureException"

C1_Witness ==
    \E t \in Threads :
        /\ th[t].pc = "done"
        /\ th[t].op = "get_failed_requirements"
        /\ th[t].arg = "no_such_feature"
        /\ th[t].exc = "UnknownFeatureException"

\* C2: is_available(F) returns True exactly when has_requirement returned True
\* for every requirement of F, in F's order; when it returns False, one of the
\* has_requirement calls it made returned False.
C2_AvailableIsAnd ==
    \A t \in Threads :
        Returned(t, "is_available") =>
            LET s == th[t]
                reqs == features[s.arg]
            IN /\ Len(s.calls) <= Len(reqs)
               /\ \A i \in 1..Len(s.calls) : s.calls[i].req = reqs[i]
               /\ s.value <=> ( /\ Len(s.calls) = Len(reqs)
                                /\ \A i \in 1..Len(reqs) : s.calls[i].value )
               /\ ~s.value => \E i \in 1..Len(s.calls) : ~s.calls[i].value

\* A feature of two requirements, the first available and the second not.
C2_Witness ==
    \E t \in Threads :
        /\ Returned(t, "is_available")
        /\ th[t].arg = "rtl_sdr_soapy"
        /\ ~th[t].value
        /\ Len(th[t].calls) = 2
        /\ th[t].calls[1].value
        /\ ~th[t].calls[2].value

\* C3: with one caller at a time, a has_requirement(r) call that comes after a
\* call that returned v, and before the expiry of r's entry, returns v from the
\* cache and does not run r's method (whatever the method would return now).
C3_CachedWithinWindow ==
    \A t \in Threads :
        LET c == th[t].hr
        IN ( /\ c.done
             /\ c.prev # "none"
             /\ c.present
             /\ c.start < c.valid_to )
           => /\ c.hit
              /\ ~c.invoked
              /\ ~c.raised
              /\ BoolName(c.value) = c.prev

C3_Witness ==
    \E t \in Threads :
        LET c == th[t].hr
        IN /\ c.done /\ c.hit /\ c.prev = "False" /\ ~c.value
           /\ c.start < c.valid_to
           /\ c.req = "soapy_connector"

\* C4: a has_requirement(r) call that finds r's entry expired does not answer
\* from the cache: it runs r's method, and when that returns a value the call
\* returns it and the entry becomes that value, valid for cachetime from then.
C4_ExpiredIsProbedAgain ==
    \A t \in Threads :
        LET c == th[t].hr
        IN ( /\ c.done
             /\ c.present
             /\ c.start > c.valid_to )
           => /\ ~c.hit
              /\ get_requirement_method(c.req) # "None" => c.invoked
              /\ ~c.raised => /\ c.after_value = c.value
                              /\ c.after_valid_to = c.end + cachetime

\* An expired entry is replaced by the opposite value.
C4_Witness ==
    \E t \in Threads :
        LET c == th[t].hr
        IN /\ c.done /\ c.present /\ c.start > c.valid_to
           /\ c.invoked /\ ~c.raised
           /\ c.value # c.entry_value
           /\ caches[c.inst][c.req] = [value |-> c.value, valid_to |-> c.end + cachetime]

\* C5: for a requirement name without a has_<name> method, has_requirement
\* returns False, raises nothing, and the cache holds False for the name.
C5_NoMethodIsFalse ==
    \A t \in Threads :
        LET c == th[t].hr
        IN (c.done /\ get_requirement_method(c.req) = "None")
           => /\ ~c.raised
              /\ ~c.value
              /\ ~c.invoked
              /\ c.req \in DOMAIN caches[c.inst]
              /\ ~caches[c.inst][c.req].value
              /\ th[t].op = "has_requirement" =>
                    th[t].outcome = "returned" /\ ~th[t].value

C5_Witness ==
    \E t \in Threads :
        LET c == th[t].hr
        IN /\ c.done /\ c.req = "no_such_requirement" /\ ~c.hit
           /\ Returned(t, "has_requirement")
           /\ caches[c.inst][c.req] = [value |-> FALSE, valid_to |-> c.end + cachetime]

\* C6: for the features of the catalog, is_available, get_failed_requirements,
\* feature_availability and feature_report never raise: every probe failure
\* ends in a boolean.
C6_OnlyUnknownFeatureRaises ==
    \A t \in Threads :
        ( /\ th[t].pc = "done"
          /\ \/ th[t].op \in {"feature_availability", "feature_report"}
             \/ /\ th[t].op \in {"is_available", "get_failed_requirements"}
                /\ th[t].arg \in DOMAIN features )
        => th[t].outcome = "returned"

\* Two has_requirement calls lie in one validity window when both end before
\* cachetime has passed since the earlier one looked into the cache.
SameWindow(c, d) ==
    LET first == IF c.start <= d.start THEN c.start ELSE d.start
    IN c.end < first + cachetime /\ d.end < first + cachetime

\* C7: when several threads call has_requirement for one requirement within
\* one validity window, all of them return the same value and the
\* requirement's method runs at most once.
C7_OneProbePerWindow ==
    \A t, u \in Threads :
        LET c == th[t].hr
            d == th[u].hr
        IN ( /\ t # u
             /\ c.done /\ d.done
             /\ ~c.raised /\ ~d.raised
             /\ c.req = d.req
             /\ SameWindow(c, d) )
           => /\ c.value = d.value
              /\ ~(c.invoked /\ d.invoked)

\* The requirements, in order, whose has_requirement call returned False.
RECURSIVE FailedAmong(_)
FailedAmong(calls) ==
    IF calls = <<>> THEN <<>>
    ELSE (IF Head(calls).value THEN <<>> ELSE <<Head(calls).req>>)
         \o FailedAmong(Tail(calls))

\* C8: get_failed_requirements(F) calls has_requirement for every requirement
\* of F and returns, in F's order, those for which it returned False; a call
\* that finds an entry before its expiry is answered by the cache, without a
\* run of the method.
C8_FailedRequirements ==
    \A t \in Threads :
        LET s == th[t]
            c == s.hr
        IN /\ Returned(t, "get_failed_requirements") =>
                /\ Len(s.calls) = Len(features[s.arg])
                /\ \A i \in 1..Len(s.calls) : s.calls[i].req = features[s.arg][i]
                /\ s.failed = FailedAmong(s.calls)
           /\ ( /\ s.op = "get_failed_requirements"
                /\ c.done /\ c.present /\ c.start < c.valid_to )
              => c.hit /\ ~c.invoked

\* The first requirement failed, the second is answered True by the cache.
C8_Witness ==
    \E t \in Threads :
        /\ Returned(t, "get_failed_requirements")
        /\ th[t].failed = <<"soapy_connector">>
        /\ th[t].hr.hit
        /\ th[t].hr.req = "soapy_rtl_sdr"

\* C9: in every feature_report, a feature's "available" is the conjunction of
\* the "available" flags of its requirements in the same report.
C9_ReportIsConsistent ==
    \A t \in Threads :
        Returned(t, "feature_report") =>
            LET report == ReportOf(th[t])
            IN \A f \in DOMAIN report :
                  report[f].available <=>
                     \A r \in DOMAIN report[f].requirements :
                        report[f].requirements[r].available

\* C10: in every feature_report, every requirement entry's "enabled" equals
\* its "available".
C10_EnabledIsAvailable ==
    \A t \in Threads :
        Returned(t, "feature_report") =>
            LET report == ReportOf(th[t])
            IN \A f \in DOMAIN report :
                  \A r \in DOMAIN report[f].requirements :
                     report[f].requirements[r].enabled
                        = report[f].requirements[r].available

\* A report with an available and an unavailable requirement.
C10_Witness ==
    \E t \in Threads :
        /\ Returned(t, "feature_report")
        /\ LET report == ReportOf(th[t])
           IN /\ DOMAIN report = DOMAIN features
              /\ report["perseussdr"].requirements["perseustest"].available
              /\ ~report["perseussdr"].requirements["nmux"].available
              /\ ~report["perseussdr"].available
              /\ report["rtl_sdr_soapy"].requirements["soapy_connector"].enabled

\* C11: an is_available(F) that returns has called has_requirement for every
\* requirement of F, also for those that come after one that returned False.
C11_EveryRequirementChecked ==
    \A t \in Threads :
        Returned(t, "is_available") =>
            LET s == th[t]
                reqs == features[s.arg]
            IN /\ Len(s.calls) = Len(reqs)
               /\ \A i \in 1..Len(reqs) : s.calls[i].req = reqs[i]

\* C12: command_is_runnable returns False and raises nothing when the launch
\* of the command ends in FileNotFoundError, with and without an expected
\* exit code; no process is started then.
C12_NotFoundIsFalse ==
    ( /\ run.strategy = "command_is_runnable"
      /\ run.pc = "done"
      /\ run.launch = "FileNotFoundError" )
    => /\ ~run.result.raised
       /\ ~run.result.value
       /\ ~run.spawned

\* The command of has_dream, with its expected exit code, is not found.
C12_Witness ==
    /\ run.strategy = "command_is_runnable"
    /\ run.pc = "done"
    /\ run.launch = "FileNotFoundError"
    /\ run.expected.given
    /\ run.result = Returns(FALSE)

C13_EventuallyReturns ==
    /\ (run.pc = "wait" /\ EndsEventually(run.proc))
          ~> (run.pc = "done" /\ ~run.result.raised)
    /\ []( ( /\ run.strategy = "command_is_runnable"
             /\ run.pc \in {"compare", "done"}
             /\ run.launch = "started" )
           => /\ run.warnings = run.expiries
              /\ WaitTimeout * run.warnings <= run.proc.ended_at
              /\ run.proc.ended_at <= WaitTimeout * (run.warnings + 1)
              /\ run.proc.ended_at = 25 => run.warnings >= 2 )

\* C14, as stated: cache.has(name) is True exactly when there is an entry for
\* name whose valid_to is strictly after the time of the call; at the time
\* valid_to itself it is False.
C14_HasStrictlyAfter ==
    \A t \in Threads :
        LET c == th[t].hr
        IN c.req # "none" => (c.hit <=> (c.present /\ c.valid_to > c.start))

\* C14, amended: cache.has(name) is True exactly when there is an entry for
\* name whose valid_to is not before the time of the call; at the time valid_to
\* itself it is still True.
C14_HasNotBefore ==
    \A t \in Threads :
        LET c == th[t].hr
        IN c.req # "none" => (c.hit <=> (c.present /\ c.valid_to >= c.start))

\* A lookup at the very time valid_to, answered by the cache.
C14_Witness ==
    \E t \in Threads :
        LET c == th[t].hr
        IN c.req # "none" /\ c.present /\ c.start = c.valid_to /\ c.hit /\ c.done

\* C15: every write to a cache is a set(name, value) of a has_requirement call:
\* name's entry becomes value with valid_to two hours after the time of the
\* write, whatever entry name had and whenever the call began, and the entries
\* of all other names stay as they are.
C15_SetReplacesOneEntry ==
    [][ \A i \in DOMAIN caches :
          caches'[i] # caches[i] =>
             \E t \in Threads :
                LET r == th[t].hr.req
                    c == th'[t].hr
                IN /\ th[t].pc = "probing"
                   /\ c.done /\ ~c.raised
                   /\ DOMAIN caches'[i] = DOMAIN caches[i] \cup {r}
                   /\ caches'[i][r] = [value |-> c.value, valid_to |-> now + 2]
                   /\ \A x \in DOMAIN caches[i] \ {r} : caches'[i][x] = caches[i][x] ]_vars

\* A has_requirement call that began an hour before its write has replaced an
\* entry by the opposite value, next to an older entry of another name.
C15_Witness ==
    \E t \in Threads :
        LET c == th[t].hr
        IN /\ c.done /\ c.invoked /\ ~c.raised
           /\ c.present /\ c.value # c.entry_value
           /\ c.end > c.start
           /\ caches[c.inst][c.req] = [value |-> c.value, valid_to |-> c.end + 2]
           /\ \E x \in DOMAIN caches[c.inst] :
                 x # c.req /\ caches[c.inst][x].valid_to < c.start

\* C16: in command_is_runnable, a wait of 10 seconds that runs out is followed
\* by one warning and then one process.kill() before the next wait of 10
\* seconds begins, in every round of the loop alike and however many rounds
\* there have been: for a process that never ends the loop is not left; it is
\* left only when the process has ended, so command_is_runnable does not end
\* while the process runs.
C16_WarnKillWaitAgain ==
    /\ []( run.strategy = "command_is_runnable" =>
             /\ run.pc = "wait" =>
                   /\ run.warnings = run.expiries
                   /\ run.kills = run.expiries
                   /\ run.waited <= WaitTimeout
             /\ (run.spawned /\ ~EndsEventually(run.proc)) =>
                   run.pc \notin {"compare", "done"}
             /\ (run.pc \in {"compare", "done"} /\ run.spawned) =>
                   run.proc.state = "terminated" )
    /\ [][ /\ (run.pc = "wait" /\ run.proc.state = "running" /\ run'.pc # "wait") =>
                 /\ run.waited = WaitTimeout
                 /\ run'.pc = "warn"
           /\ run.pc = "warn" =>
                 /\ run'.pc = "kill"
                 /\ run'.warnings = run.warnings + 1
                 /\ run'.kills = run.kills
           /\ run.pc = "kill" =>
                 /\ run'.pc = "wait"
                 /\ run'.waited = 0
                 /\ run'.kills = run.kills + 1
                 /\ run'.warnings = run.warnings ]_vars

\* A version text that is empty or has a character that is neither a digit
\* nor a dot.
Malformed(version) ==
    \/ version = <<>>
    \/ \E i \in 1..Len(version) : version[i] \notin Range(Digits) \cup {"."}

\* C18: _check_connector and _has_wsjtx_version return False and raise nothing
\* when the first line of the output does not match the version pattern, and
\* when the version text in it is malformed.
C18_MalformedIsFalse ==
    ( /\ run.strategy \in {"_check_connector", "_has_wsjtx_version"}
      /\ run.pc = "done"
      /\ run.launch = "started"
      /\ run.exited
      /\ ~run.matched \/ Malformed(run.version) )
    => run.result = Returns(FALSE)

\* C19: however the has_requirement calls of the threads interleave, one
\* FeatureCache is constructed at most, and an entry a completed
\* has_requirement call has stored is in the shared cache from then on.
C19_OneCacheNoLostWrite ==
    /\ Len(caches) <= 1
    /\ \A t \in Threads :
          LET c == th[t].hr
          IN (c.done /\ ~c.hit /\ ~c.raised) =>
                /\ sharedInstance = c.inst
                /\ c.req \in DOMAIN caches[sharedInstance]

\* C20: every process a detection strategy starts has an environment without
\* DISPLAY, and os.environ of the caller is as it was before the strategy.
C20_DisplayStripped ==
    /\ run.spawned => "DISPLAY" \notin run.child_env
    /\ run.strategy # "none" => environ = run.environ_before

\* C21: when a detection strategy returns or raises, the process it started
\* has ended: none is left running.
C21_NoProcessLeftRunning ==
    (run.pc = "done" /\ run.spawned) => run.proc.state = "terminated"

\* C22: no step removes a cache or an entry of a cache, an expired entry
\* stays until it is overwritten; and with the threads interleaved in every
\* way, the cache.get that follows a cache.has that returned True finds the
\* entry and returns.
C22_EntriesAreNeverRemoved ==
    /\ [][ \A i \in DOMAIN caches :
             /\ i \in DOMAIN caches'
             /\ DOMAIN caches[i] \subseteq DOMAIN caches'[i] ]_vars
    /\ [](\A t \in Threads :
             LET c == th[t].hr
             IN /\ th[t].exc # "KeyError"
                /\ c.hit => c.req \in DOMAIN caches[c.inst]
                /\ (c.hit /\ c.done) => ~c.raised)

\* Between the cache.has that returned True and the cache.get, the entry has
\* expired and the other thread has written to the same cache.
C22_Witness ==
    \E t, u \in Threads :
        LET c == th[t].hr
            d == th[u].hr
        IN /\ t # u
           /\ c.hit /\ c.done /\ ~c.raised
           /\ c.end > c.valid_to
           /\ d.done /\ d.invoked /\ ~d.raised /\ d.inst = c.inst
           /\ c.start <= d.end /\ d.end <= c.end

\* C23: without an expected exit code, command_is_runnable returns True for
\* every process that was started, however it ended: the return code is
\* minus the number of the kill signal or an exit status in 0..255, never 32512.
\* (Not so when process.kill() raises: command_is_runnable then ends with the
\* error and returns nothing.)
C23_LaunchedIsRunnable ==
    ( /\ run.strategy = "command_is_runnable"
      /\ run.pc = "done"
      /\ run.launch = "started"
      /\ ~run.expected.given )
    => /\ run.result = Returns(TRUE)
       /\ run.proc.rc = KilledCode \/ run.proc.rc \in 0..255
       /\ run.proc.rc # 32512

\* C24: when the method of a requirement raises, has_requirement ends with
\* that error and no cache changes: the requirement's entry, absent or
\* expired, and all other entries are as before; from then on cache.has finds
\* no valid entry for the requirement, so that the next has_requirement call
\* for it runs the method again.
C24_RaiseWritesNothing ==
    /\ [][ \A t \in Threads :
             (th[t].pc = "probing" /\ th'[t].hr.raised) =>
                /\ caches' = caches
                /\ th'[t].pc = "done"
                /\ th'[t].outcome = "raised"
                /\ th'[t].exc # "none" ]_vars
    /\ [](\A t \in Threads :
             LET c == th[t].hr
             IN (c.done /\ c.raised) =>
                   /\ ~c.hit /\ c.invoked
                   /\ c.present <=> c.req \in DOMAIN caches[c.inst]
                   /\ c.present =>
                         /\ caches[c.inst][c.req] =
                               [value |-> c.entry_value, valid_to |-> c.valid_to]
                         /\ c.valid_to < c.start
                   /\ ~cache_has(caches[c.inst], c.req, now))

\* The method has raised on an expired entry, which stays as it was next to
\* the entry of another requirement.
C24_Witness ==
    \E t \in Threads :
        LET c == th[t].hr
        IN /\ c.done /\ c.raised /\ c.present
           /\ th[t].outcome = "raised"
           /\ caches[c.inst][c.req] = [value |-> TRUE, valid_to |-> c.valid_to]
           /\ c.end > c.start
           /\ \E x \in DOMAIN caches[c.inst] : x # c.req

\* C25: has_requirement(r) changes no cache entry but that of r, and only
\* when it stores the result of r's method; this holds for wsjtx_2_3 and
\* wsjtx_2_4 too, whose methods run the wsjtx detection themselves: the entry
\* of "wsjtx" is not looked at (a valid False there does not stop them from
\* running and returning True) and is not written.
C25_OnlyOwnEntry ==
    /\ [][ \A i \in DOMAIN caches : \A x \in DOMAIN caches'[i] :
             (x \notin DOMAIN caches[i] \/ caches'[i][x] # caches[i][x]) =>
                \E t \in Threads :
                   /\ th[t].pc = "probing" /\ th[t].hr.req = x /\ th[t].hr.inst = i
                   /\ th'[t].hr.done /\ ~th'[t].hr.raised ]_vars
    /\ [](\A t \in Threads :
             LET c == th[t].hr
             IN (c.req \in DOMAIN WsjtxMinOf /\ c.done /\ ~c.hit) =>
                   /\ c.invoked
                   /\ ~c.raised =>
                         caches[c.inst][c.req] =
                            [value |-> c.value, valid_to |-> c.end + cachetime])

\* wsjtx_2_3 was detected and stored as True while the entry of "wsjtx" held
\* a valid False, which is still there unchanged.
C25_Witness ==
    \E t \in Threads :
        LET c == th[t].hr
        IN /\ c.req = "wsjtx_2_3" /\ c.done /\ c.invoked /\ ~c.raised /\ c.value
           /\ "wsjtx" \in DOMAIN caches[c.inst]
           /\ ~caches[c.inst]["wsjtx"].value
           /\ caches[c.inst]["wsjtx"].valid_to >= c.end
           /\ caches[c.inst]["wsjtx"].valid_to < c.end + cachetime
           /\ caches[c.inst]["wsjtx_2_3"] = [value |-> TRUE, valid_to |-> c.end + cachetime]

====
